---- MODULE Spec2Model ----
(***************************************************************************)
(* json2diffs (mwstreaming/utilities/json2diffs.py): the streaming         *)
(* diff-annotation engine, in Standalone, Mapper and Reducer mode.         *)
(*                                                                         *)
(* A revision document is a function from the keys it holds to their       *)
(* values ("page", "id", and optionally "text", "diff", "diff_time",       *)
(* "tokenize_time"), as the Python dict is.                                *)
(***************************************************************************)
EXTENDS Integers, Sequences, FiniteSets, TLC

\* ---------------------------------------------------------------- bounds
\* Longest input stream of a single run.
MaxLen == 3
\* Most revisions of the page that a map-reduce job splits in two.
MaxRevs == 4
\* Longest single page group fed to a Reducer run on its own.
MaxGroup == 4

\* ------------------------------------------------------------ the domain
Pages == {"P", "Q"}

\* Python's None, as the value of a "text" field.
None == "<None>"

\* Python's None, as the value of last_revision_doc.
NoDoc == [none |-> "None"]

Texts == {"a", "a b"}

\* tokenizer.tokenize(text): the configured tokenizer, on the texts of the model.
Tokenize(text) ==
    CASE text = ""    -> << >>
      [] text = "a"   -> <<"a">>
      [] text = "a b" -> <<"a", " ", "b">>

\* revision_doc['text'] or "": None and the empty string are both falsy.
TextOrEmpty(text) == IF text = None \/ text = "" THEN "" ELSE text

\* detector.diff(last_tokens, tokens) rendered by op2doc: the operations that
\* turn last_tokens into tokens, which the two sequences determine.
Operations(last, cur) == [a |-> last, b |-> cur]

\* Timer.interval: the processor time of the call, by the size of its work.
TimerInterval(work) == Len(work)

\* dict operations
Has(doc, key) == key \in DOMAIN doc
Del(doc, key) == [k \in DOMAIN doc \ {key} |-> doc[k]]
Put(doc, key, val) == [k \in DOMAIN doc \cup {key} |-> IF k = key THEN val ELSE doc[k]]

\* ------------------------------------------------------------ diff()
\* diff(revision_doc, detector, last_tokens, tokens, timeout): the document as
\* the call leaves it; timedout says whether detector.diff exceeded the timeout.
\* Variants of Diff: one that leaves the elapsed time on a timeout, one that
\* hands the token sequences to the detector in the wrong order.
Diff_NoSentinel(revision_doc, last_tokens, tokens, timedout) ==
    LET timed == Put(revision_doc, "diff_time", TimerInterval(last_tokens \o tokens))
    IN  IF timedout THEN timed
        ELSE Put(timed, "diff", Operations(last_tokens, tokens))

Diff_SwapArgs(revision_doc, last_tokens, tokens, timedout) ==
    LET timed == Put(revision_doc, "diff_time", TimerInterval(last_tokens \o tokens))
    IN  IF timedout THEN Put(timed, "diff_time", -1)
        ELSE Put(timed, "diff", Operations(tokens, last_tokens))

Diff(revision_doc, last_tokens, tokens, timedout) ==
    LET timed == Put(revision_doc, "diff_time", TimerInterval(last_tokens \o tokens))
    IN  IF timedout THEN Put(timed, "diff_time", -1)
        ELSE Put(timed, "diff", Operations(last_tokens, tokens))

\* ------------------------------------------------------ the loop body
\* Line 122: the document is tokenized unless a Reducer finds a diff on it.
IsTokenized(isreducer, revision_doc) == ~(isreducer /\ Has(revision_doc, "diff"))

\* A variant of RaisesKeyError: a null text raises too (no `or ""`).
RaisesKeyError_OnNull(isreducer, revision_doc) ==
    /\ IsTokenized(isreducer, revision_doc)
    /\ IF Has(revision_doc, "text") THEN revision_doc["text"] = None ELSE TRUE

\* Line 125: revision_doc['text'] raises KeyError when the key is absent.
RaisesKeyError(isreducer, revision_doc) ==
    IsTokenized(isreducer, revision_doc) /\ ~Has(revision_doc, "text")

\* Lines 122-128: tokens.
TokensOf(isreducer, revision_doc) ==
    IF IsTokenized(isreducer, revision_doc)
    THEN Tokenize(TextOrEmpty(revision_doc["text"]))
    ELSE << >>

\* A variant of Tokenized: tokenize_time is never set.
Tokenized_NoTime(isreducer, revision_doc) == revision_doc

\* Lines 126-127: the document with tokenize_time set.
Tokenized(isreducer, revision_doc) ==
    IF IsTokenized(isreducer, revision_doc)
    THEN Put(revision_doc, "tokenize_time",
             TimerInterval(TokensOf(isreducer, revision_doc)))
    ELSE revision_doc

\* Lines 123-127, when line 125 raises (the text lookup, or the tokenizer): the
\* finally clause still sets tokenize_time, and no tokens are made.
TokenizeFailed(revision_doc) ==
    Put(revision_doc, "tokenize_time", TimerInterval(<< >>))

\* A variant of CallsDiff: a Mapper skips the first document of every group.
CallsDiff_SkipsGroupFirst(args, l, revision_doc) ==
    IF args.reducer
    THEN IF l.first_doc_in_group THEN TRUE
         ELSE ~Has(revision_doc, "diff") /\ l.diff_pending
    ELSE ~(args.mapper /\ l.first_doc_in_group)

\* Lines 130-139: whether diff() is called on the document.
CallsDiff(args, l, revision_doc) ==
    IF args.reducer
    THEN IF l.first_doc_in_group THEN TRUE
         ELSE ~Has(revision_doc, "diff") /\ l.diff_pending
    ELSE ~(args.mapper /\ l.first_ever_revision_doc)

\* Lines 133-137: diff_pending after the document.
PendingAfter(args, l, revision_doc) ==
    IF args.reducer /\ ~l.first_doc_in_group /\ ~Has(revision_doc, "diff")
    THEN ~l.diff_pending
    ELSE l.diff_pending

\* A variant of Yields: every document is yielded.
Yields_Always(diff_pending) == TRUE

\* Line 144: the document is yielded unless a diff is pending.
Yields(diff_pending) == ~diff_pending

\* A variant of DropText: the text is dropped whether or not a diff is held.
DropText_Always(drop_text, revision_doc) ==
    IF drop_text /\ Has(revision_doc, "text")
    THEN Del(revision_doc, "text")
    ELSE revision_doc

\* run(), lines 82-83: the yielded document loses its text when text is
\* dropped and it holds a diff; this changes the dict json2diffs still holds.
DropText(drop_text, revision_doc) ==
    IF drop_text /\ Has(revision_doc, "diff") /\ Has(revision_doc, "text")
    THEN Del(revision_doc, "text")
    ELSE revision_doc

\* A variant of GroupStart: diff_pending survives the group boundary.
GroupStart_KeepsPending(l) ==
    [l EXCEPT !.last_tokens = << >>,
              !.first_doc_in_group = TRUE]

\* A variant of GroupStart: the group's first document is not marked.
GroupStart_NotFirst(l) ==
    [l EXCEPT !.last_tokens = << >>,
              !.diff_pending = FALSE]

\* A variant of GroupStart: last_tokens survives the group boundary.
GroupStart_KeepsTokens(l) ==
    [l EXCEPT !.diff_pending = FALSE,
              !.first_doc_in_group = TRUE]

\* Lines 114-116: the locals at the start of a page group.
GroupStart(l) ==
    [l EXCEPT !.last_tokens = << >>,
              !.diff_pending = FALSE,
              !.first_doc_in_group = TRUE]

\* A variant of Iteration: line 145 yields last_revision_doc, the document
\* before this one, in place of revision_doc.
Iteration_YieldsLast(args, l, revision_doc, timedout) ==
    LET tokens   == TokensOf(args.reducer, revision_doc)
        doc1     == Tokenized(args.reducer, revision_doc)
        doc2     == IF CallsDiff(args, l, doc1)
                    THEN Diff(doc1, l.last_tokens, tokens, timedout)
                    ELSE doc1
        pending  == PendingAfter(args, l, doc1)
    IN  [first_ever_revision_doc |-> FALSE,
         last_revision_doc       |-> doc2,
         last_revision_text      |-> IF Has(doc2, "text") THEN doc2["text"]
                                     ELSE l.last_revision_text,
         last_tokens             |-> tokens,
         diff_pending            |-> pending,
         first_doc_in_group      |-> FALSE,
         written                 |-> IF Yields(pending) /\ l.last_revision_doc # NoDoc
                                     THEN <<l.last_revision_doc>> ELSE << >>]

\* Lines 117-150 with run()'s handling of the yielded document: the locals
\* after one revision document that raises nothing, and what was written.
Iteration(args, l, revision_doc, timedout) ==
    LET tokens   == TokensOf(args.reducer, revision_doc)
        doc1     == Tokenized(args.reducer, revision_doc)
        doc2     == IF CallsDiff(args, l, doc1)
                    THEN Diff(doc1, l.last_tokens, tokens, timedout)
                    ELSE doc1
        pending  == PendingAfter(args, l, doc1)
        doc3     == IF Yields(pending) THEN DropText(args.drop_text, doc2) ELSE doc2
    IN  [first_ever_revision_doc |-> FALSE,
         last_revision_doc       |-> doc3,
         last_revision_text      |-> IF Has(doc2, "text") THEN doc2["text"]
                                     ELSE l.last_revision_text,
         last_tokens             |-> tokens,
         diff_pending            |-> pending,
         first_doc_in_group      |-> FALSE,
         written                 |-> IF Yields(pending) THEN <<doc3>> ELSE << >>]

\* Line 155: the trailing document is made.
MakesHandOff(args, l) == args.mapper /\ l.last_revision_doc # NoDoc

\* Line 156: del last_revision_doc['diff'] raises KeyError without the key.
HandOffRaises(l) == ~Has(l.last_revision_doc, "diff")

\* Lines 156-158: the trailing document of a Mapper run.
HandOff(l) == Put(Del(l.last_revision_doc, "diff"), "text", l.last_revision_text)

\* ---------------------------------------------------------------- state
VARIABLES
    args,                     \* mapper, reducer, drop_text (lines 70-73)
    stdin,                    \* the documents read_docs yields to this job
    timed_out,                \* ids of the documents whose diff() call timed out
    input,                    \* the documents the run has not consumed yet
    out,                      \* the documents run() has written, in order
    pc,                       \* "groupby", "revisions", "done", or the exception raised
    page_title,               \* key of the group groupby is yielding
    first_ever_revision_doc,
    last_revision_doc,
    last_revision_text,
    last_tokens,
    diff_pending,
    first_doc_in_group,
    cur_revision_doc,         \* revision_doc, the loop variable of line 117
    stage,                    \* "single", or the stage of a map-reduce job
    k,                        \* map-reduce: the first mapper reads stdin[1..k]
    outA                      \* map-reduce: what the first mapper wrote

vars == <<args, stdin, timed_out, input, out, pc, page_title, first_ever_revision_doc,
          last_revision_doc, last_revision_text, last_tokens, diff_pending,
          first_doc_in_group, cur_revision_doc, stage, k, outA>>

job == <<args, stdin, stage, k, outA>>

Locals ==
    [first_ever_revision_doc |-> first_ever_revision_doc,
     last_revision_doc       |-> last_revision_doc,
     last_revision_text      |-> last_revision_text,
     last_tokens             |-> last_tokens,
     diff_pending            |-> diff_pending,
     first_doc_in_group      |-> first_doc_in_group]

\* Lines 107-109: the locals before the loop (those of lines 114-116 are unset).
InitialLocals ==
    [first_ever_revision_doc |-> TRUE,
     last_revision_doc       |-> NoDoc,
     last_revision_text      |-> "",
     last_tokens             |-> << >>,
     diff_pending            |-> FALSE,
     first_doc_in_group      |-> TRUE]

\* Usage, lines 26-29: no flag, --mapper, or --reducer.
Modes == {<<FALSE, FALSE>>, <<TRUE, FALSE>>, <<FALSE, TRUE>>}

ArgsOf(mode, drop) == [mapper |-> mode[1], reducer |-> mode[2], drop_text |-> drop]

\* ------------------------------------------------------------- inputs
\* A revision document of a dump: a page, a revision id, and a text that is a
\* string, null, or not there.
RawDocs(id) ==
    {[page |-> p, id |-> id, text |-> t] : p \in Pages, t \in Texts \cup {None}}
    \cup {[page |-> p, id |-> id] : p \in Pages}

\* A diff made by an earlier run, from tokens this run never sees.
EarlierDiff == Operations(<<"x">>, <<"x", "y">>)

\* A document an earlier Mapper run finished: diff and times set, the text
\* kept or dropped.
WithEarlierDiff(doc) ==
    [key \in DOMAIN doc \cup {"diff", "diff_time", "tokenize_time"} |->
        CASE key = "diff" -> EarlierDiff
          [] key = "diff_time" -> 7
          [] key = "tokenize_time" -> 5
          [] OTHER -> doc[key]]

FinishedDocs(id) ==
    {WithEarlierDiff([page |-> p, id |-> id, text |-> "a"]) : p \in Pages}
    \cup {WithEarlierDiff([page |-> p, id |-> id]) : p \in Pages}

\* The documents a run in the given mode may read in place id of its input.
InputDocs(isreducer, id) ==
    IF isreducer THEN RawDocs(id) \cup FinishedDocs(id) ELSE RawDocs(id)

\* The streams of n documents, ids 1..n.
Streams(isreducer, n) ==
    {s \in [1..n -> UNION {InputDocs(isreducer, i) : i \in 1..n}] :
        \A i \in 1..n : s[i]["id"] = i}

\* ------------------------------------------------------------- actions
StartRun(docs) ==
    /\ input = docs
    /\ timed_out = {}
    /\ out = << >>
    /\ pc = "groupby"
    /\ page_title = ""
    /\ first_ever_revision_doc = InitialLocals.first_ever_revision_doc
    /\ last_revision_doc = InitialLocals.last_revision_doc
    /\ last_revision_text = InitialLocals.last_revision_text
    /\ last_tokens = InitialLocals.last_tokens
    /\ diff_pending = InitialLocals.diff_pending
    /\ first_doc_in_group = InitialLocals.first_doc_in_group
    /\ cur_revision_doc = NoDoc

\* One run of json2diffs over a stream of at most MaxLen documents.
Init ==
    /\ \E mode \in Modes, drop \in BOOLEAN : args = ArgsOf(mode, drop)
    /\ \E n \in 0..MaxLen : stdin \in Streams(args.reducer, n)
    /\ stage = "single"
    /\ k = 0
    /\ outA = << >>
    /\ StartRun(stdin)

SetLocals(l) ==
    /\ first_ever_revision_doc' = l.first_ever_revision_doc
    /\ last_revision_doc' = l.last_revision_doc
    /\ last_revision_text' = l.last_revision_text
    /\ last_tokens' = l.last_tokens
    /\ diff_pending' = l.diff_pending
    /\ first_doc_in_group' = l.first_doc_in_group

\* Lines 110-116: groupby yields the next group, keyed by its first document.
NextGroup ==
    /\ pc = "groupby"
    /\ input # << >>
    /\ page_title' = Head(input)["page"]
    /\ SetLocals(GroupStart(Locals))
    /\ pc' = "revisions"
    /\ UNCHANGED <<job, timed_out, input, out, cur_revision_doc>>

\* Lines 117-150 and 81-86: one revision document of the group; timedout is
\* whether detector.diff, if called, runs past the timeout.
ProcessRevision(timedout) ==
    /\ pc = "revisions"
    /\ input # << >>
    /\ Head(input)["page"] = page_title
    /\ LET revision_doc == Head(input)
           next == Iteration(args, Locals, revision_doc, timedout)
       IN  IF RaisesKeyError(args.reducer, revision_doc)
           THEN /\ ~timedout
                /\ pc' = "KeyError"
                /\ cur_revision_doc' = TokenizeFailed(revision_doc)
                /\ UNCHANGED <<timed_out, input, out, first_ever_revision_doc, last_revision_doc,
                               last_revision_text, last_tokens, diff_pending,
                               first_doc_in_group>>
           ELSE /\ timedout => CallsDiff(args, Locals, revision_doc)
                /\ timed_out' = IF timedout THEN timed_out \cup {revision_doc["id"]}
                                 ELSE timed_out
                /\ pc' = pc
                /\ input' = Tail(input)
                /\ out' = out \o next.written
                /\ SetLocals(next)
                /\ cur_revision_doc' = next.last_revision_doc
    /\ UNCHANGED <<job, page_title>>

\* Lines 123-127: the tokenizer raises on the document (an adapter failure);
\* the exception ends the run.
TokenizerRaises ==
    /\ pc = "revisions"
    /\ input # << >>
    /\ Head(input)["page"] = page_title
    /\ IsTokenized(args.reducer, Head(input))
    /\ Has(Head(input), "text")
    /\ pc' = "TokenizerError"
    /\ cur_revision_doc' = TokenizeFailed(Head(input))
    /\ UNCHANGED <<job, timed_out, input, out, page_title, first_ever_revision_doc,
                   last_revision_doc, last_revision_text, last_tokens,
                   diff_pending, first_doc_in_group>>

\* Line 153: the group is exhausted (the next document has another key, or
\* there is none).
EndGroup ==
    /\ pc = "revisions"
    /\ IF input = << >> THEN TRUE ELSE Head(input)["page"] # page_title
    /\ pc' = "groupby"
    /\ UNCHANGED <<job, timed_out, input, out, page_title, first_ever_revision_doc,
                   last_revision_doc, last_revision_text, last_tokens,
                   diff_pending, first_doc_in_group, cur_revision_doc>>

\* Lines 155-158 and 81-86: the end of the stream.
EndOfStream ==
    /\ pc = "groupby"
    /\ input = << >>
    /\ IF ~MakesHandOff(args, Locals)
       THEN /\ pc' = "done"
            /\ UNCHANGED <<out, last_revision_doc, cur_revision_doc>>
       ELSE IF HandOffRaises(Locals)
       THEN /\ pc' = "KeyError"
            /\ UNCHANGED <<out, last_revision_doc, cur_revision_doc>>
       ELSE /\ pc' = "done"
            /\ last_revision_doc' = DropText(args.drop_text, HandOff(Locals))
            /\ cur_revision_doc' = last_revision_doc'
            /\ out' = Append(out, last_revision_doc')
    /\ UNCHANGED <<job, timed_out, input, page_title, first_ever_revision_doc,
                   last_revision_text, last_tokens, diff_pending, first_doc_in_group>>

Next ==
    \/ NextGroup
    \/ \E timedout \in BOOLEAN : ProcessRevision(timedout)
    \/ TokenizerRaises
    \/ EndGroup
    \/ EndOfStream

Spec == Init /\ [][Next]_vars

\* --------------------------------------------------- a Reducer page group
\* One Reducer run over a single page group of at most MaxGroup documents, each
\* a raw document with a text or one an earlier Mapper run finished.
GroupDocs(id) ==
    {d \in InputDocs(TRUE, id) : d["page"] = "P" /\ (Has(d, "text") \/ Has(d, "diff"))}

GroupStreams(n) ==
    {s \in [1..n -> UNION {GroupDocs(i) : i \in 1..n}] : \A i \in 1..n : s[i]["id"] = i}

InitGroup ==
    /\ \E drop \in BOOLEAN : args = ArgsOf(<<FALSE, TRUE>>, drop)
    /\ \E n \in 0..MaxGroup : stdin \in GroupStreams(n)
    /\ stage = "single"
    /\ k = 0
    /\ outA = << >>
    /\ StartRun(stdin)

SpecGroup == InitGroup /\ [][Next]_vars

\* ------------------------------------------------------ a map-reduce job
\* Lines 19-23: the revisions of one page, split at k between two Mapper
\* runs whose outputs, concatenated, are the input of one Reducer run. No
\* diff call times out.
PageStreams(n) ==
    {s \in [1..n -> UNION {RawDocs(i) : i \in 1..n}] :
        \A i \in 1..n : s[i]["id"] = i /\ s[i]["page"] = "P" /\ Has(s[i], "text")}

InitMR ==
    /\ \E drop \in BOOLEAN : args = ArgsOf(<<TRUE, FALSE>>, drop)
    /\ \E n \in 0..MaxRevs : stdin \in PageStreams(n)
    /\ k \in 0..Len(stdin)
    /\ stage = "mapA"
    /\ outA = << >>
    /\ StartRun(SubSeq(stdin, 1, k))

Restart(docs) ==
    /\ input' = docs
    /\ out' = << >>
    /\ pc' = "groupby"
    /\ page_title' = ""
    /\ SetLocals(InitialLocals)
    /\ cur_revision_doc' = NoDoc
    /\ UNCHANGED <<stdin, timed_out, k>>

\* The first Mapper run is done: the second reads the rest of the page.
StartMapperB ==
    /\ stage = "mapA"
    /\ pc = "done"
    /\ stage' = "mapB"
    /\ outA' = out
    /\ args' = args
    /\ Restart(SubSeq(stdin, k + 1, Len(stdin)))

\* Both Mapper runs are done: the Reducer reads their outputs, in order.
StartReducer ==
    /\ stage = "mapB"
    /\ pc = "done"
    /\ stage' = "reduce"
    /\ outA' = outA
    /\ args' = ArgsOf(<<FALSE, TRUE>>, args.drop_text)
    /\ Restart(outA \o out)

NextMR ==
    \/ NextGroup
    \/ ProcessRevision(FALSE)
    \/ EndGroup
    \/ EndOfStream
    \/ StartMapperB
    \/ StartReducer

SpecMR == InitMR /\ [][NextMR]_vars

\* ------------------------------------------------------- the command line
MaxMainLen == 2

\* A variant of UsageMatches: any combination of the mode flags is accepted.
UsageMatches_Any(mapper, reducer) == TRUE

\* Usage, lines 26-29: --mapper and --reducer stand in separate usage lines,
\* so docopt matches a command line that has at most one of them.
UsageMatches(mapper, reducer) == ~(mapper /\ reducer)

\* The command starts with any combination of the flags on its command line
\* and at most MaxMainLen documents on stdin; nothing has run yet.
InitMain ==
    /\ \E mapper \in BOOLEAN, reducer \in BOOLEAN, drop \in BOOLEAN :
          args = ArgsOf(<<mapper, reducer>>, drop)
    /\ \E n \in 0..MaxMainLen : stdin \in Streams(args.reducer, n)
    /\ stage = "single"
    /\ k = 0
    /\ outA = << >>
    /\ input = stdin
    /\ timed_out = {}
    /\ out = << >>
    /\ pc = "main"
    /\ page_title = ""
    /\ first_ever_revision_doc = InitialLocals.first_ever_revision_doc
    /\ last_revision_doc = InitialLocals.last_revision_doc
    /\ last_revision_text = InitialLocals.last_revision_text
    /\ last_tokens = InitialLocals.last_tokens
    /\ diff_pending = InitialLocals.diff_pending
    /\ first_doc_in_group = InitialLocals.first_doc_in_group
    /\ cur_revision_doc = NoDoc

\* main(), lines 61-76: docopt raises DocoptExit on a command line that
\* matches no usage line; otherwise run() starts on stdin.
Main ==
    /\ pc = "main"
    /\ pc' = IF UsageMatches(args.mapper, args.reducer) THEN "groupby"
             ELSE "DocoptExit"
    /\ UNCHANGED <<job, timed_out, input, out, page_title, first_ever_revision_doc,
                   last_revision_doc, last_revision_text, last_tokens,
                   diff_pending, first_doc_in_group, cur_revision_doc>>

NextMain ==
    \/ Main
    \/ NextGroup
    \/ \E timedout \in BOOLEAN : ProcessRevision(timedout)
    \/ TokenizerRaises
    \/ EndGroup
    \/ EndOfStream

SpecMain == InitMain /\ [][NextMain]_vars

\* ------------------------------------------------- a run without timeouts
\* json2diffs and run() over docs when no diff call times out: what is written
\* and how the run ends. title is the key of the open group ("" before the
\* first).
RECURSIVE Consume(_, _, _, _, _)
Consume(a, l, title, docs, written) ==
    IF docs = << >>
    THEN IF ~MakesHandOff(a, l) THEN [out |-> written, pc |-> "done"]
         ELSE IF HandOffRaises(l) THEN [out |-> written, pc |-> "KeyError"]
         ELSE [out |-> Append(written, DropText(a.drop_text, HandOff(l))),
               pc |-> "done"]
    ELSE LET revision_doc == Head(docs)
             l0 == IF title # revision_doc["page"] THEN GroupStart(l) ELSE l
         IN  IF RaisesKeyError(a.reducer, revision_doc)
             THEN [out |-> written, pc |-> "KeyError"]
             ELSE LET next == Iteration(a, l0, revision_doc, FALSE)
                  IN  Consume(a, next, revision_doc["page"], Tail(docs),
                              written \o next.written)

NoTimeoutRun(a, docs) == Consume(a, InitialLocals, "", docs, << >>)

\* ------------------------------------------------------------ sanity
TypeOK ==
    /\ pc \in {"main", "DocoptExit", "groupby", "revisions", "done", "KeyError",
             "TokenizerError"}
    /\ stage \in {"single", "mapA", "mapB", "reduce"}
    /\ diff_pending \in BOOLEAN
    /\ first_doc_in_group \in BOOLEAN
    /\ first_ever_revision_doc \in BOOLEAN
    /\ Len(input) <= Len(stdin) + 2
    /\ \A j \in 1..Len(out) : {"page", "id"} \subseteq DOMAIN out[j]

\* The run the actions take step by step ends as NoTimeoutRun computes it.
RunAgrees ==
    (stage = "single" /\ pc \in {"done", "KeyError"} /\ timed_out = {})
        => NoTimeoutRun(args, stdin) = [out |-> out, pc |-> pc]

\* ======================================================== the claims
\* The tokens of a document's text, and the diff a document is owed against
\* its predecessor in the stream docs: the empty sequence for the first of a
\* page group, else the tokens of the document before it.
ExpectedTokens(doc) == Tokenize(TextOrEmpty(doc["text"]))

GroupFirst(docs, i) == i = 1 \/ docs[i - 1]["page"] # docs[i]["page"]

ExpectedDiff(docs, i) ==
    Operations(IF GroupFirst(docs, i) THEN << >> ELSE ExpectedTokens(docs[i - 1]),
               ExpectedTokens(docs[i]))

Standalone == ~args.mapper /\ ~args.reducer

\* The step consumes the document at the head of the input.
Consumes == input # << >> /\ input' = Tail(input)

\* The document the step has written, when it has written one.
Written == out'[Len(out')]

\* ---- C1 (SpecMR). A page split at any k between two Mapper runs and put
\* through one Reducer run: no run raises, and when the Reducer is done its
\* output holds, for every revision of the page, a document with the diff the
\* Standalone run gives that revision; a document without a diff repeats the
\* id of one with a diff (a hand-off).
C1_Original ==
    /\ pc # "KeyError"
    /\ (stage = "reduce" /\ pc = "done") =>
         LET alone == NoTimeoutRun(ArgsOf(<<FALSE, FALSE>>, args.drop_text), stdin).out
         IN  /\ \A i \in 1..Len(stdin) :
                  \E j \in 1..Len(out) :
                     /\ out[j]["id"] = i
                     /\ Has(out[j], "diff")
                     /\ out[j]["diff"] = alone[i]["diff"]
             /\ \A j \in 1..Len(out) :
                  ~Has(out[j], "diff") =>
                     \E j2 \in 1..Len(out) :
                        out[j2]["id"] = out[j]["id"] /\ Has(out[j2], "diff")

\* ---- C2 (Spec). Standalone: every document written is the next of the
\* input, and unless its diff call timed out it holds the diff of its tokens
\* against the empty sequence (first of its group) or against the tokens of
\* the input document before it.
C2_StandaloneDiffs ==
    Standalone =>
        \A j \in 1..Len(out) :
            /\ out[j]["id"] = j
            /\ j \notin timed_out =>
                 Has(out[j], "diff") /\ out[j]["diff"] = ExpectedDiff(stdin, j)

C2_Witness ==
    /\ Standalone /\ pc = "done" /\ timed_out = {}
    /\ Len(stdin) = 3 /\ Len(out) = 3
    /\ stdin[1]["page"] = "P" /\ stdin[2]["page"] = "P" /\ stdin[3]["page"] = "Q"
    /\ out[2]["diff"] = Operations(<<"a">>, <<"a", " ", "b">>)
    /\ out[3]["diff"] = Operations(<< >>, <<"a">>)

\* ---- C3 (Spec). Mapper: once a non-empty input is consumed and the run has
\* ended, it ended without an exception and the last document written is the
\* hand-off: the last input document again, without a diff and with the text
\* of that input document.
C3_Original ==
    (args.mapper /\ stdin # << >> /\ input = << >> /\ pc \in {"done", "KeyError"}) =>
        /\ pc = "done"
        /\ Len(out) = Len(stdin) + 1
        /\ LET last == out[Len(out)]
               n == Len(stdin)
           IN  /\ last["id"] = n
               /\ out[n]["id"] = n
               /\ ~Has(last, "diff")
               /\ Has(last, "text")
               /\ last["text"] = stdin[n]["text"]

\* ---- C4 (Spec). Mapper: the first document of the stream is written with no
\* diff and no diff_time; every other input document, the first of a later
\* page group included, is written with the diff it is owed in Standalone
\* mode, or with diff_time -1 and no diff when its diff call timed out.
C4_MapperDiffs ==
    args.mapper =>
        \A j \in 1..Len(out) :
            j <= Len(stdin) =>
                /\ out[j]["id"] = j
                /\ j = 1 => ~Has(out[j], "diff") /\ ~Has(out[j], "diff_time")
                /\ (j > 1 /\ j \notin timed_out) =>
                     Has(out[j], "diff") /\ out[j]["diff"] = ExpectedDiff(stdin, j)
                /\ (j > 1 /\ j \in timed_out) =>
                     ~Has(out[j], "diff") /\ out[j]["diff_time"] = -1

C4_Witness ==
    /\ args.mapper /\ pc = "done" /\ timed_out = {}
    /\ Len(stdin) = 3 /\ Len(out) = 4
    /\ stdin[1]["page"] = "P" /\ stdin[2]["page"] = "Q" /\ stdin[3]["page"] = "Q"
    /\ ~Has(out[1], "diff")
    /\ out[2]["diff"] = Operations(<< >>, <<"a", " ", "b">>)
    /\ out[3]["diff"] = Operations(<<"a", " ", "b">>, <<"a">>)

\* ---- C5 (Spec). Reducer: the step that consumes a document that is not the
\* first of its group, holds no diff, and finds no diff pending.
C5_Case ==
    /\ args.reducer /\ pc = "revisions" /\ Consumes
    /\ ~first_doc_in_group /\ ~diff_pending
    /\ ~Has(Head(input), "diff")

C6_Case ==
    /\ args.reducer /\ pc = "revisions" /\ Consumes
    /\ ~first_doc_in_group /\ diff_pending
    /\ ~Has(Head(input), "diff")
    /\ timed_out' = timed_out

PendingSetter(j) ==
    CHOOSE i \in 1..(j - 1) :
        /\ ~Has(stdin[i], "diff")
        /\ \A m \in (i + 1)..(j - 1) : Has(stdin[m], "diff")

C6_Original ==
    [][C6_Case =>
          /\ ~diff_pending'
          /\ Len(out') = Len(out) + 1
          /\ Has(Written, "diff")
          /\ Written["diff"] =
                Operations(ExpectedTokens(stdin[PendingSetter(Head(input)["id"])]),
                           ExpectedTokens(Head(input)))]_vars

\* ---- C7 (Spec). Reducer: the step that consumes a document that is not the
\* first of its group and holds a diff writes that document, once, with its
\* diff, diff_time and tokenize_time as they were (and its text, unless texts
\* are dropped), and calls no diff, whether or not a diff is pending.
C7_Case ==
    /\ args.reducer /\ pc = "revisions" /\ Consumes
    /\ ~first_doc_in_group
    /\ Has(Head(input), "diff")

C7_Original ==
    [][C7_Case =>
          /\ timed_out' = timed_out
          /\ Len(out') = Len(out) + 1
          /\ Written["id"] = Head(input)["id"]
          /\ Written["diff"] = Head(input)["diff"]
          /\ Written["diff_time"] = Head(input)["diff_time"]
          /\ Written["tokenize_time"] = Head(input)["tokenize_time"]
          /\ ~args.drop_text => Written = Head(input)]_vars

\* ---- C8 (Spec). Reducer: the step that consumes the first document of a page
\* group, when its diff call does not time out, writes it with the diff of the
\* tokens of its text against the empty sequence, whether or not it held a diff.
C8_Case ==
    /\ args.reducer /\ pc = "revisions" /\ Consumes
    /\ first_doc_in_group
    /\ Has(Head(input), "text")
    /\ timed_out' = timed_out

C8_Original ==
    [][C8_Case =>
          /\ Len(out') = Len(out) + 1
          /\ Has(Written, "diff")
          /\ Written["diff"] = Operations(<< >>, ExpectedTokens(Head(input)))]_vars

\* ---- C9 (Spec). Every document written whose diff call timed out has
\* diff_time -1 and no diff; every document written with a diff has a
\* diff_time that is not -1.
C9_Original ==
    \A j \in 1..Len(out) :
        /\ out[j]["id"] \in timed_out =>
             /\ Has(out[j], "diff_time")
             /\ out[j]["diff_time"] = -1
             /\ ~Has(out[j], "diff")
        /\ Has(out[j], "diff") =>
             /\ Has(out[j], "diff_time")
             /\ out[j]["diff_time"] # -1

\* ---- C10 (Spec). A run in which exactly one diff call timed out, over an
\* input that the run without timeouts finishes: it raises nothing, and when
\* it is done it has written as many documents as the run without timeouts,
\* each equal to that run's but those of the timed-out document.
C10_Original ==
    LET ref == NoTimeoutRun(args, stdin)
    IN  (Cardinality(timed_out) = 1 /\ ref.pc = "done") =>
            /\ pc # "KeyError"
            /\ pc = "done" =>
                 /\ Len(out) = Len(ref.out)
                 /\ \A j \in 1..Len(out) :
                      out[j]["id"] \notin timed_out => out[j] = ref.out[j]

\* The number of input documents the run has consumed (a single run).
Consumed == Len(stdin) - Len(input)

\* ---- C11 (Spec). A run that has consumed its whole input of n documents and
\* ended has ended without an exception and has written n documents in
\* Standalone and Reducer mode, and in Mapper mode n + 1 (0 when n = 0).
C11_Original ==
    (stage = "single" /\ input = << >> /\ pc \in {"done", "KeyError"}) =>
        /\ pc = "done"
        /\ Len(out) = IF args.mapper /\ stdin # << >> THEN Len(stdin) + 1
                      ELSE Len(stdin)

\* ---- C12 (Spec). A written document lacks the text its input document has
\* only when texts are dropped and it holds a diff as it is written; a text it
\* holds is the text of its input document. So a document written without a
\* diff keeps its text, and with text-dropping off none loses it.
C12_TextKept ==
    stage = "single" =>
        \A j \in 1..Len(out) :
            LET doc == out[j]
                src == stdin[doc["id"]]
            IN  /\ (Has(src, "text") /\ ~Has(doc, "text")) =>
                      args.drop_text /\ Has(doc, "diff")
                /\ Has(doc, "text") => Has(src, "text") /\ doc["text"] = src["text"]

C12_Witness ==
    /\ args.mapper /\ args.drop_text /\ pc = "done"
    /\ Len(stdin) = 3 /\ Len(out) = 4 /\ timed_out = {2}
    /\ Has(out[1], "text") /\ ~Has(out[1], "diff")
    /\ Has(out[2], "text") /\ ~Has(out[2], "diff")
    /\ ~Has(out[3], "text") /\ Has(out[3], "diff")
    /\ Has(out[4], "text") /\ ~Has(out[4], "diff") /\ out[4]["text"] = stdin[3]["text"]

\* ---- C13 (Spec). The document groupby hands the loop next, when it has to
\* be tokenized (it is not a Reducer's document that holds a diff).
C13_Case ==
    /\ pc = "revisions" /\ input # << >>
    /\ Head(input)["page"] = page_title
    /\ ~(args.reducer /\ Has(Head(input), "diff"))

\* A step of the run that leaves the tokenizer's own failures aside.
C13_Step == pc' # pc \/ input' # input

Reappears(docs, i) ==
    /\ i > 1
    /\ docs[i - 1]["page"] # docs[i]["page"]
    /\ \E j \in 1..(i - 2) : docs[j]["page"] = docs[i]["page"]

\* As claimed: the run fails at a reappearing page, so the document of a
\* reappearing page is never consumed.
C14_Original ==
    stage = "single" =>
        \A i \in 1..Len(stdin) : Reappears(stdin, i) => Consumed < i

\* As the code has it: a reappearing page raises nothing; groupby opens a new
\* group for it, and its first document is handled as the first of any group:
\* it is written at once and, unless its diff call times out, with a diff
\* against the empty token sequence.
C14_SecondGroup ==
    [][(stage = "single" /\ input # << >> /\ Reappears(stdin, Consumed + 1)) =>
          /\ (pc = "groupby" /\ pc' # pc) =>
                /\ pc' = "revisions"
                /\ page_title' = Head(input)["page"]
                /\ first_doc_in_group' /\ last_tokens' = << >> /\ ~diff_pending'
                /\ input' = input /\ out' = out
          /\ (pc = "revisions" /\ Consumes) =>
                /\ pc' = "revisions"
                /\ Len(out') = Len(out) + 1
                /\ Written = cur_revision_doc'
                /\ Written["id"] = Head(input)["id"]
                /\ (~Has(Head(input), "diff") /\ Head(input)["id"] \notin timed_out') =>
                      Written["diff"] = Operations(<< >>, ExpectedTokens(Head(input)))]_vars

C14_Witness ==
    /\ pc = "revisions" /\ Len(stdin) = 3 /\ Consumed = 3 /\ timed_out = {}
    /\ stdin[1]["page"] = "P" /\ stdin[2]["page"] = "Q" /\ stdin[3]["page"] = "P"
    /\ stdin[2]["text"] = "a b" /\ stdin[3]["text"] = "a"
    /\ Len(out) = 3
    /\ out[3]["diff"] = Operations(<< >>, <<"a">>)

\* ---- C15 (SpecMain). A command line with both --mapper and --reducer ends
\* at startup: the run never leaves main() but by DocoptExit, no document is
\* consumed, tokenized or diffed, and nothing is written.
C15_BothModes ==
    (args.mapper /\ args.reducer) =>
        /\ pc \in {"main", "DocoptExit"}
        /\ input = stdin
        /\ out = << >>
        /\ cur_revision_doc = NoDoc
        /\ last_revision_doc = NoDoc
        /\ last_tokens = << >>

C15_Witness ==
    /\ args.mapper /\ args.reducer
    /\ pc = "DocoptExit"
    /\ Len(stdin) = 2 /\ Has(stdin[1], "text")

\* ---- C17 (Spec). The tokens the document before document i of docs leaves
\* behind for a run: none when a Reducer finds a diff on it.
TokensLeft(isreducer, docs, i) ==
    IF isreducer /\ Has(docs[i], "diff") THEN << >> ELSE ExpectedTokens(docs[i])

\* The pending flag is never set outside Reducer mode. When the first
\* document of a page group is processed, last_tokens is empty and no diff is
\* pending; a diff made on a document is made against the empty sequence when
\* it is the first of its group, and else against the tokens of the document
\* before it, which is of the same page.
C17_GroupState ==
    [][stage = "single" =>
          /\ ~args.reducer => ~diff_pending'
          /\ (pc = "revisions" /\ Consumes) =>
                /\ GroupFirst(stdin, Consumed + 1) =>
                      last_tokens = << >> /\ ~diff_pending
                /\ (~Has(Head(input), "diff") /\ Has(cur_revision_doc', "diff")) =>
                      cur_revision_doc'["diff"].a =
                          IF GroupFirst(stdin, Consumed + 1) THEN << >>
                          ELSE TokensLeft(args.reducer, stdin, Consumed)]_vars

\* A Reducer run: the second document of page P is left pending when the
\* group ends, and the first document of page Q is diffed against nothing.
C17_Witness ==
    /\ args.reducer /\ pc = "revisions" /\ Len(stdin) = 3 /\ Consumed = 3
    /\ stdin[1]["page"] = "P" /\ stdin[2]["page"] = "P" /\ stdin[3]["page"] = "Q"
    /\ ~Has(stdin[1], "diff") /\ ~Has(stdin[2], "diff") /\ ~Has(stdin[3], "diff")
    /\ stdin[2]["text"] = "a b" /\ stdin[3]["text"] = "a"
    /\ ~diff_pending
    /\ Len(out) = 2 /\ out[2]["id"] = 3
    /\ out[2]["diff"] = Operations(<< >>, <<"a">>)

\* ---- C18 (Spec). groupby opens a group exactly at a document that is the
\* first of the input or follows a document of another page, keyed by that
\* document's page; a document is consumed in the group of its own page, and
\* as the group's first exactly when it opened the group; a group closes only
\* after a document of it was consumed and when the input ends or the next
\* document is of another page. An empty input opens no group, raises nothing
\* and writes nothing.
C18_MaximalRuns ==
    [][stage = "single" =>
          /\ (pc = "groupby" /\ pc' = "revisions") =>
                /\ input # << >> /\ input' = input
                /\ GroupFirst(stdin, Consumed + 1)
                /\ page_title' = Head(input)["page"]
          /\ (pc = "revisions" /\ Consumes) =>
                /\ Head(input)["page"] = page_title
                /\ first_doc_in_group <=> GroupFirst(stdin, Consumed + 1)
                /\ ~first_doc_in_group'
          /\ (pc = "revisions" /\ pc' = "groupby") =>
                /\ Consumed >= 1 /\ input' = input
                /\ stdin[Consumed]["page"] = page_title
                /\ input # << >> => GroupFirst(stdin, Consumed + 1)
          /\ stdin = << >> => pc' \in {"groupby", "done"} /\ out' = << >>]_vars

\* Pages P, P, Q: the second group has opened at the third document.
C18_Witness ==
    /\ pc = "revisions" /\ Len(stdin) = 3 /\ Consumed = 2
    /\ stdin[1]["page"] = "P" /\ stdin[2]["page"] = "P" /\ stdin[3]["page"] = "Q"
    /\ page_title = "Q" /\ first_doc_in_group
    /\ Len(out) = 2

\* ---- C19 (Spec). The step that consumes a document writes nothing or that
\* document alone, after every document written before it; a step that
\* consumes nothing writes nothing, but for the trailing document a Mapper
\* writes at the end of its input. So the documents written, the Mapper's
\* trailing one aside, are input documents in input order, none twice, each
\* written before the next is consumed.
C19_InOrder ==
    [][stage = "single" =>
          IF Consumes
          THEN \/ out' = out
               \/ /\ out' = Append(out, Written)
                  /\ Written["id"] = Head(input)["id"]
                  /\ Written["page"] = Head(input)["page"]
                  /\ \A j \in 1..Len(out) : out[j]["id"] < Written["id"]
          ELSE \/ out' = out
               \/ /\ args.mapper /\ input = << >> /\ pc' = "done"
                  /\ out' = Append(out, Written)]_vars

\* A Reducer run over three documents of a page: the second is withheld, the
\* third is written after the first.
C19_Witness ==
    /\ args.reducer /\ pc = "revisions" /\ Len(stdin) = 3 /\ Consumed = 3
    /\ stdin[1]["page"] = stdin[2]["page"] /\ stdin[2]["page"] = stdin[3]["page"]
    /\ Len(out) = 2 /\ out[1]["id"] = 1 /\ out[2]["id"] = 3
    /\ Has(out[2], "diff") /\ ~Has(stdin[3], "diff")

\* ---- C20 (Spec). A step of the loop on the next document of the group. A
\* Reducer's document that holds a diff is consumed untokenized: it leaves no
\* tokens, and its tokenize_time stays as it was on input. Any other document
\* goes to the tokenizer and has tokenize_time set after the step, whether
\* the step consumed it or raised; consumed, it leaves the tokens of its text.
C20_TokenizeTime ==
    [][(/\ stage = "single" /\ pc = "revisions" /\ input # << >>
        /\ Head(input)["page"] = page_title
        /\ (pc' # pc \/ input' # input)) =>
          LET doc == Head(input)
          IN  /\ cur_revision_doc'["id"] = doc["id"]
              /\ IF args.reducer /\ Has(doc, "diff")
                 THEN /\ Consumes
                      /\ last_tokens' = << >>
                      /\ Has(cur_revision_doc', "tokenize_time") <=> Has(doc, "tokenize_time")
                      /\ Has(doc, "tokenize_time") =>
                            cur_revision_doc'["tokenize_time"] = doc["tokenize_time"]
                 ELSE /\ Has(cur_revision_doc', "tokenize_time")
                      /\ ~Consumes => pc' \in {"KeyError", "TokenizerError"}
                      /\ Consumes => last_tokens' = ExpectedTokens(doc)]_vars

\* A Reducer run: the first document came with a diff and kept its
\* tokenize_time; the tokenizer raised on the second, which has one set.
C20_Witness ==
    /\ args.reducer /\ pc = "TokenizerError" /\ Consumed = 1 /\ Len(stdin) = 2
    /\ Has(stdin[1], "diff") /\ ~Has(stdin[2], "diff")
    /\ Len(out) = 1 /\ out[1]["tokenize_time"] = stdin[1]["tokenize_time"]
    /\ cur_revision_doc["id"] = 2 /\ Has(cur_revision_doc, "tokenize_time")
    /\ ~Has(stdin[2], "tokenize_time")

====
